---- MODULE Spec2Model ----
(***************************************************************************)
(* Model of archinstall/lib/user_interaction/general_conf.py: the prompt   *)
(* helpers of the installer, the shared configuration store they read and  *)
(* write, and the rewrite of /etc/pacman.conf.                             *)
(*                                                                         *)
(* Python values are encoded as options: None is the empty tuple and a     *)
(* value v is the one-element tuple <<v>>, so that None, the empty list    *)
(* and the empty dict stay distinct.  Text is a sequence of one-character  *)
(* strings.                                                                *)
(***************************************************************************)
EXTENDS Integers, Sequences, FiniteSets, TLC

VARIABLES storage, pacman_conf, pc, call

vars == <<storage, pacman_conf, pc, call>>

\* call describes the call in progress or the last one finished; its field fn
\* names the function and decides which other fields it has
NoCall == [fn |-> "none", run |-> 0]

\* ------------------------------------------------------------------ bounds
MaxInputLen == 3
MaxNumLen == 2
MaxConfChunks == 3
MaxPrompts == 3
MaxRuns == 2

\* ------------------------------------------------------- python encodings
None == <<>>
Val(v) == <<v>>

Range(s) == {s[i] : i \in 1..Len(s)}

RECURSIVE SeqsUpTo(_, _)
SeqsUpTo(S, n) ==
  IF n = 0 THEN {<<>>}
  ELSE LET shorter == SeqsUpTo(S, n - 1)
       IN shorter \cup {Append(s, c) : s \in {t \in shorter : Len(t) = n - 1}, c \in S}

\* lists without repetition over a set (what a multi-select menu returns)
DistinctLists(S) == {s \in SeqsUpTo(S, Cardinality(S)) : Cardinality(Range(s)) = Len(s)}

RECURSIVE Flatten(_)
Flatten(ss) == IF ss = <<>> THEN <<>> ELSE Head(ss) \o Flatten(Tail(ss))

\* ------------------------------------------------------------ str methods
IsSpace(c) == c \in {" ", "\t", "\n"}

RECURSIVE LStrip(_, _)
LStrip(s, chars) ==
  IF s # <<>> /\ Head(s) \in chars THEN LStrip(Tail(s), chars) ELSE s

RECURSIVE RStrip(_, _)
RStrip(s, chars) ==
  IF s # <<>> /\ s[Len(s)] \in chars THEN RStrip(SubSeq(s, 1, Len(s) - 1), chars) ELSE s

\* str.strip(chars)
StripChars(s, chars) == RStrip(LStrip(s, chars), chars)

\* str.strip()
Strip(s) == StripChars(s, {" ", "\t", "\n"})

\* str.split(): split on runs of whitespace, no empty strings in the result
RECURSIVE SplitWs(_, _)
SplitWs(s, word) ==
  IF s = <<>> THEN (IF word = <<>> THEN <<>> ELSE <<word>>)
  ELSE IF IsSpace(Head(s))
       THEN (IF word = <<>> THEN <<>> ELSE <<word>>) \o SplitWs(Tail(s), <<>>)
       ELSE SplitWs(Tail(s), Append(word, Head(s)))

Split(s) == SplitWs(s, <<>>)

\* str.split(sep) for a one-character separator: empty strings are kept and
\* the result always has one element more than there are separators
SplitOn(s, sep) ==
  LET at == {i \in 1..Len(s) : s[i] = sep}
      cut(k) == IF k = 0 THEN 0
                ELSE IF k > Cardinality(at) THEN Len(s) + 1
                ELSE CHOOSE i \in at : Cardinality({j \in at : j < i}) = k - 1
  IN [k \in 1..(Cardinality(at) + 1) |-> SubSeq(s, cut(k - 1) + 1, cut(k) - 1)]

\* sep.join(list)
RECURSIVE Join(_, _)
Join(list, sep) ==
  IF list = <<>> THEN <<>>
  ELSE IF Len(list) = 1 THEN Head(list)
  ELSE Head(list) \o sep \o Join(Tail(list), sep)

\* key in line
Contains(line, key) ==
  \E i \in 0..(Len(line) - Len(key)) : SubSeq(line, i + 1, i + Len(key)) = key

\* ------------------------------------------------------- the menu widget
\* MenuSelection(type_, value); value is None unless type_ is Selection
Esc == [type_ |-> "Esc", value |-> None]
Ctrl_c == [type_ |-> "Ctrl_c", value |-> None]
Selection(v) == [type_ |-> "Selection", value |-> Val(v)]

\* Menu(...).run(): Ctrl_c is reported only with raise_error_on_interrupt,
\* Esc only when skipping is allowed
MenuRun(values, skip, raise_error_on_interrupt) ==
  {Selection(v) : v \in values}
    \cup (IF skip THEN {Esc} ELSE {})
    \cup (IF raise_error_on_interrupt THEN {Ctrl_c} ELSE {})

\* ------------------------------------------------- external collaborators
list_timezones == {"UTC", "Europe/Berlin"}
list_keyboard_languages == {"us", "de", "de-latin1"}
list_mirrors == ("Germany" :> "de.mirror") @@ ("Sweden" :> "se.mirror")
list_profiles == {"desktop", "minimal"}
get_profile_description == ("desktop" :> "a desktop") @@ ("minimal" :> "a bare system")
Languages ==
  << [abbr |-> "en", display_name |-> "English"],
     [abbr |-> "de", display_name |-> "Deutsch"] >>
NoAudio == "No audio server"

Optional(S) == {None} \cup {Val(v) : v \in S}

\* presets a caller may hand to select_mirror_regions: none, or a mapping
\* stored earlier, whose values need not be the directory's current ones
MirrorPresets ==
  Optional({<<>>, ("Germany" :> "de.mirror"), ("Germany" :> "old.mirror")})

\* --------------------------------------------------------------- ask_ntp
ask_ntp(preset, choice) == IF choice.value = Val("no") THEN FALSE ELSE TRUE

\* ------------------------------------------------------------ ask_hostname
HostnameInputs ==
  {<<>>, <<" ">>, <<"h">>, <<" ", "h">>, <<"h", " ">>, <<" ", "h", " ", "h", " ">>}

ask_hostname(input) == StripChars(input, {" "})

\* ------------------------------------------------------ ask_for_a_timezone
\* variant: Escape falls back to the menu's default option
ask_for_a_timezone_esc_default(preset, choice) ==
  CASE choice.type_ = "Esc" -> Val("UTC")
    [] choice.type_ = "Selection" -> choice.value
    [] OTHER -> None

ask_for_a_timezone(preset, choice) ==
  CASE choice.type_ = "Esc" -> preset
    [] choice.type_ = "Selection" -> choice.value
    [] OTHER -> None

\* -------------------------------------------------- ask_for_audio_selection
AudioChoices(desktop) ==
  IF desktop THEN {"pipewire", "pulseaudio"} ELSE {"pipewire", "pulseaudio", NoAudio}

ask_for_audio_selection(desktop, preset, choice) ==
  CASE choice.type_ = "Esc" -> preset
    [] choice.type_ = "Selection" -> choice.value
    [] OTHER -> None

\* ---------------------------------------------------------- select_language
select_language(preset_value, selected_lang) ==
  IF selected_lang.value = None THEN preset_value ELSE selected_lang.value

\* ----------------------------------------------------- select_mirror_regions
\* variant: an interrupt is handled like Escape
select_mirror_regions_interrupt_as_esc(preset_values, selected_mirror) ==
  LET mirrors == list_mirrors
  IN CASE selected_mirror.type_ = "Ctrl_c" -> preset_values
       [] selected_mirror.type_ = "Esc" -> preset_values
       [] OTHER -> Val([selected \in Range(selected_mirror.value[1]) |-> mirrors[selected]])

select_mirror_regions(preset_values, selected_mirror) ==
  LET mirrors == list_mirrors
  IN CASE selected_mirror.type_ = "Ctrl_c" -> Val(<<>>)
       [] selected_mirror.type_ = "Esc" -> preset_values
       [] OTHER -> Val([selected \in Range(selected_mirror.value[1]) |-> mirrors[selected]])

\* ------------------------------------------------ select_archinstall_language
\* {lang.display_name: lang for lang in languages}: a later entry wins
LanguageOptions(languages) ==
  [name \in {languages[i].display_name : i \in 1..Len(languages)} |->
     languages[CHOOSE i \in 1..Len(languages) :
                 /\ languages[i].display_name = name
                 /\ \A j \in 1..Len(languages) :
                      languages[j].display_name = name => j <= i]]

select_archinstall_language(languages, preset_value, choice) ==
  LET options == LanguageOptions(languages)
  IN CASE choice.type_ = "Esc" -> preset_value
       [] choice.type_ = "Selection" -> Val(options[choice.value[1]])
       [] OTHER -> None

\* ------------------------------------------- select_additional_repositories
Repositories == {"multilib", "testing"}

select_additional_repositories(preset, choice) ==
  CASE choice.type_ = "Esc" -> preset
    [] choice.type_ = "Ctrl_c" -> Val(<<>>)
    [] choice.type_ = "Selection" -> choice.value
    [] OTHER -> None

\* ------------------------------------------------ shared configuration store
\* storage: three profile keys at the top level and, under 'arguments', the
\* two profile arguments and the two command line flags this module reads
MkStorage(minimal, servers, desktop, de, gfx, offline, no_lookups) ==
  ("profile_minimal" :> minimal)
    @@ ("_selected_servers" :> servers)
    @@ ("_desktop_profile" :> desktop)
    @@ ("arguments" :>
          (("desktop-environment" :> de)
             @@ ("gfx_driver_packages" :> gfx)
             @@ ("offline" :> offline)
             @@ ("no_pkg_lookups" :> no_lookups)))

\* the stores the installer may have built before this layer runs: with no
\* profile answer or with every profile answer, and any mix of the two flags
Storages ==
  {MkStorage(set, IF set THEN <<"sshd">> ELSE <<>>,
             IF set THEN Val("gnome") ELSE None,
             IF set THEN Val("gnome") ELSE None,
             IF set THEN Val(<<"mesa">>) ELSE None,
             offline, no_lookups) :
     set \in BOOLEAN, offline \in BOOLEAN, no_lookups \in BOOLEAN}

\* ----------------------------------------------------------- select_profile
Profile(name) == [profile |-> name]

\* options[f'{profile.profile}: {description}'] = profile
ProfileOptions ==
  [option \in {<<p, get_profile_description[p]>> : p \in list_profiles} |->
     Profile(option[1])]

select_profile(preset, selection) ==
  LET options == ProfileOptions
  IN CASE selection.type_ = "Selection" ->
            (IF selection.value # None THEN Val(options[selection.value[1]]) ELSE None)
       [] selection.type_ = "Ctrl_c" -> None
       [] selection.type_ = "Esc" -> None
       [] OTHER -> None

\* variant: the reset leaves out the graphics driver packages
select_profile_storage_keeps_gfx(st, selection) ==
  IF selection.type_ = "Ctrl_c"
  THEN [st EXCEPT !["profile_minimal"] = FALSE,
                  !["_selected_servers"] = <<>>,
                  !["_desktop_profile"] = None,
                  !["arguments"]["desktop-environment"] = None]
  ELSE st

\* variant: Escape resets the store as an interrupt does
select_profile_storage_on_esc(st, selection) ==
  IF selection.type_ \in {"Ctrl_c", "Esc"}
  THEN [st EXCEPT !["profile_minimal"] = FALSE,
                  !["_selected_servers"] = <<>>,
                  !["_desktop_profile"] = None,
                  !["arguments"]["desktop-environment"] = None,
                  !["arguments"]["gfx_driver_packages"] = None]
  ELSE st

\* the store after select_profile has handled the menu's result
select_profile_storage(st, selection) ==
  IF selection.type_ = "Ctrl_c"
  THEN [st EXCEPT !["profile_minimal"] = FALSE,
                  !["_selected_servers"] = <<>>,
                  !["_desktop_profile"] = None,
                  !["arguments"]["desktop-environment"] = None,
                  !["arguments"]["gfx_driver_packages"] = None]
  ELSE st

\* --------------------------------------- ask_additional_packages_to_install
PkgChars == {" ", "a", "b"}
PkgInputs == SeqsUpTo(PkgChars, MaxInputLen)
PreSetPackages == {None, Val(<<>>), Val(<< <<"a">>, <<"b">> >>)}

\* read_packages: what is shown in the prompt, and what the typed text yields
read_packages_display(already_defined) == Join(already_defined, <<" ">>)

read_packages(input) ==
  LET input_packages == Strip(input)
  IN IF input_packages # <<>> THEN Split(input_packages) ELSE <<>>

\* validate_package_list(packages): the answers the service may give, the
\* names it found and the names it did not find, each once and in any order
validate_package_list(packages) ==
  {[valid |-> valid, invalid |-> invalid] :
     <<valid, invalid>> \in
       UNION {DistinctLists(found) \X DistinctLists(Range(packages) \ found) :
                found \in SUBSET Range(packages)}}

\* variant: the test of line 201 looks at the wrong list
some_invalid_wrong_list(answer) == answer.valid = <<>>

\* the test of line 201
some_invalid(answer) == answer.invalid # <<>>

\* variant: only the offline flag is looked at
PkgLookups_offline_only(st) == ~st["arguments"]["offline"]

\* the test of line 194
PkgLookups(st) ==
  ~st["arguments"]["offline"] /\ ~st["arguments"]["no_pkg_lookups"]

PkgFn == "ask_additional_packages_to_install"

\* lines 181-188: the two notices, then the first prompt is on screen
AskAdditionalPackages(pre_set_packages) ==
  /\ pc = "idle"
  /\ LET pre_set == IF pre_set_packages # None /\ pre_set_packages[1] # <<>>
                    THEN pre_set_packages[1] ELSE <<>>
     IN call' = [fn |-> PkgFn,
                 display |-> read_packages_display(pre_set),
                 prompts |-> 1,
                 validations |-> 0,
                 input |-> None,
                 packages |-> <<>>,
                 checked |-> None,
                 ret |-> None]
  /\ pc' = "read_packages"
  /\ UNCHANGED <<storage, pacman_conf>>

\* lines 188-207: the user's text arrives; the list is verified when lookups
\* are on, and the function either prompts again or returns
PackagesEntered(input, answer) ==
  /\ pc = "read_packages"
  /\ LET packages == read_packages(input)
         verify == PkgLookups(storage) /\ Len(packages) > 0
     IN IF verify /\ some_invalid(answer)
        THEN /\ call.prompts < MaxPrompts
             /\ call' = [call EXCEPT !.input = Val(input),
                                     !.packages = packages,
                                     !.checked = Val([list |-> packages,
                                                      valid |-> answer.valid,
                                                      invalid |-> answer.invalid]),
                                     !.validations = @ + 1,
                                     !.display = read_packages_display(answer.valid),
                                     !.prompts = @ + 1]
             /\ pc' = "read_packages"
        ELSE /\ call' = [call EXCEPT !.input = Val(input),
                                     !.packages = packages,
                                     !.checked = IF verify
                                                 THEN Val([list |-> packages,
                                                           valid |-> answer.valid,
                                                           invalid |-> answer.invalid])
                                                 ELSE @,
                                     !.validations = IF verify THEN @ + 1 ELSE @,
                                     !.ret = Val(packages)]
             /\ pc' = "idle"
  /\ UNCHANGED <<storage, pacman_conf>>

\* --------------------------------------- add_number_of_parrallel_downloads
Digits == {"0", "1", "2", "3", "4", "5", "6", "7", "8", "9"}
DigitChar == <<"0", "1", "2", "3", "4", "5", "6", "7", "8", "9">>
DigitValue(c) == (CHOOSE d \in 1..10 : DigitChar[d] = c) - 1

RECURSIVE DecimalValue(_)
DecimalValue(ds) ==
  IF ds = <<>> THEN 0
  ELSE 10 * DecimalValue(SubSeq(ds, 1, Len(ds) - 1)) + DigitValue(ds[Len(ds)])

\* int(text) for a stripped, non-empty text: an optional sign and decimal
\* digits give the number, anything else raises (None here)
ParseInt(text) ==
  LET signed == Head(text) \in {"-", "+"}
      body == IF signed THEN Tail(text) ELSE text
  IN IF body # <<>> /\ \A k \in 1..Len(body) : body[k] \in Digits
     THEN Val(IF Head(text) = "-" THEN 0 - DecimalValue(body) ELSE DecimalValue(body))
     ELSE None

\* variant: text that is no number counts as 0
ReadNumber_zero_on_invalid(input) ==
  LET text == Strip(input)
  IN IF text = <<>> \/ ParseInt(text) = None THEN Val(0) ELSE ParseInt(text)

\* int(TextInput("> ").run().strip() or 0)
ReadNumber(input) ==
  LET text == Strip(input)
  IN IF text = <<>> THEN Val(0) ELSE ParseInt(text)

RECURSIVE NatToStr(_)
NatToStr(n) ==
  IF n < 10 THEN <<DigitChar[n + 1]>>
  ELSE NatToStr(n \div 10) \o <<DigitChar[(n % 10) + 1]>>

\* f"{input_number}"
IntToStr(n) == IF n < 0 THEN <<"-">> \o NatToStr(0 - n) ELSE NatToStr(n)

ParallelDownloads ==
  <<"P", "a", "r", "a", "l", "l", "e", "l", "D", "o", "w", "n", "l", "o", "a", "d", "s">>

\* variant: only a line that starts with the name is rewritten
RewriteLine_startswith(line, input_number) ==
  IF Len(line) >= Len(ParallelDownloads)
       /\ SubSeq(line, 1, Len(ParallelDownloads)) = ParallelDownloads
  THEN ParallelDownloads \o <<" ", "=", " ">> \o IntToStr(input_number) \o <<"\n">>
  ELSE line \o <<"\n">>

\* the text written for one line of the old file, lines 225-228
RewriteLine(line, input_number) ==
  IF Contains(line, ParallelDownloads)
  THEN ParallelDownloads \o <<" ", "=", " ">> \o IntToStr(input_number) \o <<"\n">>
  ELSE line \o <<"\n">>

\* variant: the directive is added at the end when no line has it
RewriteConf_appends(content, input_number) ==
  LET lines == SplitOn(content, "\n")
      absent == \A k \in 1..Len(lines) : ~Contains(lines[k], ParallelDownloads)
  IN Flatten([k \in 1..Len(lines) |-> RewriteLine(lines[k], input_number)])
       \o (IF absent
           THEN ParallelDownloads \o <<" ", "=", " ">> \o IntToStr(input_number) \o <<"\n">>
           ELSE <<>>)

\* lines 219-228: read the file, split it on newlines, write every element back
RewriteConf(content, input_number) ==
  LET lines == SplitOn(content, "\n")
  IN Flatten([k \in 1..Len(lines) |-> RewriteLine(lines[k], input_number)])

\* contents of /etc/pacman.conf before the call: up to MaxConfChunks pieces,
\* each a newline, the directive's name or a comment sign
ConfChunks == {<<"\n">>, ParallelDownloads, <<"#">>}
ConfContents == {Flatten(chunks) : chunks \in SeqsUpTo(ConfChunks, MaxConfChunks)}

NumChars == {" ", "8", "x", "-"}
NumInputs == SeqsUpTo(NumChars, MaxNumLen)
InputNumbers == {0, 8, 12}

DlFn == "add_number_of_parrallel_downloads"

\* lines 219-230 once the number is known
DlWrite(input_number, record) ==
  /\ pacman_conf' = RewriteConf(pacman_conf, input_number)
  /\ call' = [record EXCEPT !.writes = @ + 1, !.ret = Val(input_number)]
  /\ pc' = "idle"

\* lines 209-212: the notice, then either the caller's number is written at
\* once or the first prompt is on screen
AddNumberOfParallelDownloads(input_number) ==
  /\ pc = "idle"
  /\ call.run < MaxRuns
  /\ LET record == [fn |-> DlFn,
                    run |-> call.run + 1,
                    input_number |-> input_number,
                    before |-> pacman_conf,
                    writes |-> 0,
                    input |-> None,
                    ret |-> None]
     IN IF input_number # None
        THEN DlWrite(input_number[1], record)
        ELSE /\ call' = record
             /\ pc' = "read_number"
             /\ UNCHANGED pacman_conf
  /\ UNCHANGED storage

\* lines 213-230: the user's text arrives; a number ends the loop and the
\* file is rewritten, anything else prints the notice and prompts again
NumberEntered(input) ==
  /\ pc = "read_number"
  /\ LET number == ReadNumber(input)
         record == [call EXCEPT !.input = Val(input)]
     IN IF number # None
        THEN DlWrite(number[1], record)
        ELSE /\ call' = record
             /\ pc' = "read_number"
             /\ UNCHANGED pacman_conf
  /\ UNCHANGED storage

\* ------------------------------------------------------- the menu prompts
Returned(fn, preset, choice, ret) ==
  /\ pc = "idle"
  /\ call' = [fn |-> fn, preset |-> preset, choice |-> choice, ret |-> ret]
  /\ pc' = "idle"
  /\ UNCHANGED pacman_conf

AskNtp(preset, choice) ==
  /\ Returned("ask_ntp", preset, choice, ask_ntp(preset, choice))
  /\ UNCHANGED storage

AskHostname(preset, input) ==
  /\ Returned("ask_hostname", preset, input, ask_hostname(input))
  /\ UNCHANGED storage

AskForATimezone(preset, choice) ==
  /\ Returned("ask_for_a_timezone", preset, choice, ask_for_a_timezone(preset, choice))
  /\ UNCHANGED storage

AskForAudioSelection(desktop, preset, choice) ==
  /\ Returned("ask_for_audio_selection", preset, choice,
              ask_for_audio_selection(desktop, preset, choice))
  /\ UNCHANGED storage

SelectLanguage(preset_value, selected_lang) ==
  /\ Returned("select_language", preset_value, selected_lang,
              select_language(preset_value, selected_lang))
  /\ UNCHANGED storage

SelectMirrorRegions(preset_values, selected_mirror) ==
  /\ Returned("select_mirror_regions", preset_values, selected_mirror,
              select_mirror_regions(preset_values, selected_mirror))
  /\ UNCHANGED storage

SelectArchinstallLanguage(preset_value, choice) ==
  /\ Returned("select_archinstall_language", preset_value, choice,
              select_archinstall_language(Languages, preset_value, choice))
  /\ UNCHANGED storage

SelectProfile(preset, selection) ==
  /\ Returned("select_profile", preset, selection, select_profile(preset, selection))
  /\ storage' = select_profile_storage(storage, selection)

SelectAdditionalRepositories(preset, choice) ==
  /\ Returned("select_additional_repositories", preset, choice,
              select_additional_repositories(preset, choice))
  /\ UNCHANGED storage

\* ---------------------------------------------------------- specification
Init ==
  /\ storage \in Storages
  /\ pacman_conf = <<>>
  /\ pc = "idle"
  /\ call = NoCall

Next ==
  \/ \E preset \in BOOLEAN, choice \in MenuRun({"yes", "no"}, FALSE, FALSE) :
       AskNtp(preset, choice)
  \/ \E preset \in Optional({"arch"}), input \in HostnameInputs :
       AskHostname(preset, input)
  \/ \E preset \in Optional(list_timezones),
        choice \in MenuRun(list_timezones, TRUE, FALSE) :
       AskForATimezone(preset, choice)
  \/ \E desktop \in BOOLEAN, preset \in Optional({"pulseaudio"}) :
       \E choice \in MenuRun(AudioChoices(desktop), TRUE, FALSE) :
         AskForAudioSelection(desktop, preset, choice)
  \/ \E preset_value \in Optional(list_keyboard_languages),
        selected_lang \in MenuRun(list_keyboard_languages, TRUE, FALSE) :
       SelectLanguage(preset_value, selected_lang)
  \/ \E preset_values \in MirrorPresets,
        selected_mirror \in MenuRun(DistinctLists(DOMAIN list_mirrors), TRUE, TRUE) :
       SelectMirrorRegions(preset_values, selected_mirror)
  \/ \E preset_value \in {Val(Languages[i]) : i \in 1..Len(Languages)},
        choice \in MenuRun({Languages[i].display_name : i \in 1..Len(Languages)},
                           TRUE, FALSE) :
       SelectArchinstallLanguage(preset_value, choice)
  \/ \E preset \in Optional({Profile(p) : p \in list_profiles}),
        selection \in MenuRun(DOMAIN ProfileOptions, TRUE, TRUE) :
       SelectProfile(preset, selection)
  \/ \E preset \in Optional({<<>>, <<"testing">>}),
        choice \in MenuRun(DistinctLists(Repositories), TRUE, TRUE) :
       SelectAdditionalRepositories(preset, choice)
  \/ \E pre_set_packages \in PreSetPackages :
       AskAdditionalPackages(pre_set_packages)
  \/ \E input \in PkgInputs :
       \E answer \in validate_package_list(read_packages(input)) :
         PackagesEntered(input, answer)

Spec == Init /\ [][Next]_vars

\* the rewrite of pacman.conf on its own, from any small file
InitConf ==
  /\ storage = MkStorage(FALSE, <<>>, None, None, None, FALSE, FALSE)
  /\ pacman_conf \in ConfContents
  /\ pc = "idle"
  /\ call = NoCall

NextConf ==
  \/ \E input_number \in Optional(InputNumbers) :
       AddNumberOfParallelDownloads(input_number)
  \/ \E input \in NumInputs :
       NumberEntered(input)

SpecConf == InitConf /\ [][NextConf]_vars

\* =================================================================== claims
IsCall(fn) == call.fn = fn /\ pc = "idle"

PresetFns ==
  {"ask_for_a_timezone", "ask_for_audio_selection", "select_language",
   "select_mirror_regions", "select_archinstall_language", "select_profile",
   "select_additional_repositories"}

\* C1 as written: every prompt function that takes a preset returns exactly
\* that preset when the menu's result is Escape.
C1_EscapeReturnsPreset ==
  (call.fn \in PresetFns /\ call.choice.type_ = "Esc") => call.ret = call.preset

\* C1 as amended: on Escape every prompt function that takes a preset returns
\* exactly that preset, except select_profile, which returns nothing whatever
\* its preset is.
C1_EscapeReturnsPresetButProfile ==
  (call.fn \in PresetFns /\ call.choice.type_ = "Esc") =>
     IF call.fn = "select_profile" THEN call.ret = None ELSE call.ret = call.preset

C1_Witness ==
  /\ call.fn = "ask_for_a_timezone"
  /\ call.choice.type_ = "Esc"
  /\ call.preset = Val("Europe/Berlin")
  /\ call.ret = Val("Europe/Berlin")

\* the entries of the store: the top-level keys other than 'arguments' and
\* the keys nested under 'arguments'
StorePaths ==
  {<<k>> : k \in DOMAIN storage \ {"arguments"}}
    \cup {<<"arguments", k>> : k \in DOMAIN storage["arguments"]}

Get(st, path) == IF Len(path) = 1 THEN st[path[1]] ELSE st[path[1]][path[2]]

Changed(st1, st2) == {path \in StorePaths : Get(st1, path) # Get(st2, path)}

ProfileDefaults ==
  (<<"profile_minimal">> :> FALSE)
    @@ (<<"_selected_servers">> :> <<>>)
    @@ (<<"_desktop_profile">> :> None)
    @@ (<<"arguments", "desktop-environment">> :> None)
    @@ (<<"arguments", "gfx_driver_packages">> :> None)

ProfileInterrupted == call.fn = "select_profile" /\ call.choice.type_ = "Ctrl_c"

\* C2 as written: on Interrupt select_profile resets four keys of the store
\* to their defaults, changes no entry of the store beyond those four (nested
\* keys under 'arguments' included) and returns nothing.
C2_ResetsFourKeys ==
  [][ProfileInterrupted' =>
       /\ call'.ret = None
       /\ \E four \in SUBSET DOMAIN ProfileDefaults :
            /\ Cardinality(four) = 4
            /\ Changed(storage, storage') \subseteq four
            /\ \A path \in four : Get(storage', path) = ProfileDefaults[path]]_vars

\* C2 as amended: on Interrupt select_profile resets five entries of the
\* store to their defaults - profile_minimal, _selected_servers,
\* _desktop_profile and, under 'arguments', desktop-environment and
\* gfx_driver_packages - changes no other entry and returns nothing.
C2_ResetsFiveEntries ==
  [][ProfileInterrupted' =>
       /\ call'.ret = None
       /\ \A path \in DOMAIN ProfileDefaults :
            Get(storage', path) = ProfileDefaults[path]
       /\ Changed(storage, storage') \subseteq DOMAIN ProfileDefaults]_vars

C2_Witness ==
  /\ ProfileInterrupted
  /\ call.preset # None
  /\ storage["arguments"]["gfx_driver_packages"] = None
  /\ storage["arguments"]["no_pkg_lookups"]

FlagSet == storage["arguments"]["offline"] \/ storage["arguments"]["no_pkg_lookups"]

\* C3: with neither flag set, ask_additional_packages_to_install returns only
\* when the list entered last is empty or was checked with no invalid entry
\* (so every returned package was reported valid), and every prompt after a
\* failed check is seeded with exactly the valid names of that check.
C3_ReturnsOnlyValidated ==
  (call.fn = PkgFn /\ ~FlagSet) =>
     /\ pc = "idle" =>
          /\ call.ret = Val(Split(call.input[1]))
          /\ \/ call.ret = Val(<<>>)
             \/ /\ call.checked # None
                /\ call.checked[1].list = call.ret[1]
                /\ call.checked[1].invalid = <<>>
     /\ (pc = "read_packages" /\ call.prompts > 1) =>
          /\ call.checked # None
          /\ call.checked[1].invalid # <<>>
          /\ call.display = Join(call.checked[1].valid, <<" ">>)

C3_Witness ==
  /\ call.fn = PkgFn
  /\ ~FlagSet
  /\ pc = "idle"
  /\ call.prompts = 2
  /\ call.validations = 2
  /\ call.ret = Val(<< <<"a">>, <<"b">> >>)

\* C4: the validation service is called only when neither flag is set; with a
\* flag set there is one prompt, no validation, and the returned list is the
\* first input split on whitespace.
C4_NoValidationWhenFlagged ==
  call.fn = PkgFn =>
     /\ call.validations > 0 => ~FlagSet
     /\ (FlagSet /\ pc = "idle") =>
          /\ call.prompts = 1
          /\ call.validations = 0
          /\ call.checked = None
          /\ call.ret = Val(Split(call.input[1]))

C4_Witness ==
  /\ call.fn = PkgFn
  /\ pc = "idle"
  /\ storage["arguments"]["no_pkg_lookups"]
  /\ ~storage["arguments"]["offline"]
  /\ call.input = Val(<<"a", " ", "b">>)
  /\ call.ret = Val(<< <<"a">>, <<"b">> >>)

\* C7: select_mirror_regions answers an Interrupt with the empty mapping
\* whatever the preset, and a Selection with the mirror directory restricted
\* to the chosen regions, whatever the preset.
C7_MirrorRegions ==
  call.fn = "select_mirror_regions" =>
     /\ call.choice.type_ = "Ctrl_c" => call.ret = Val(<<>>)
     /\ call.choice.type_ = "Selection" =>
          /\ call.ret # None
          /\ DOMAIN call.ret[1] = Range(call.choice.value[1])
          /\ \A region \in DOMAIN call.ret[1] :
               call.ret[1][region] = list_mirrors[region]

C7_Witness ==
  /\ call.fn = "select_mirror_regions"
  /\ call.choice.type_ = "Ctrl_c"
  /\ call.preset = Val(("Germany" :> "old.mirror"))
  /\ call.ret = Val(<<>>)

\* C9: the store changes only in a step in which select_profile receives an
\* Interrupt; every other call of this layer leaves it as it was.
C9_StoreChangesOnlyOnInterrupt ==
  [][storage' # storage => ProfileInterrupted']_vars

C9_Witness ==
  /\ call.fn = "select_profile"
  /\ call.choice.type_ = "Esc"
  /\ storage["profile_minimal"]
  /\ storage["arguments"]["gfx_driver_packages"] # None

\* the lines of a file as the code reads them
FileLines(content) == SplitOn(content, "\n")

HasDirective(line) == Contains(line, ParallelDownloads)

DirectiveLine(n) == ParallelDownloads \o <<" ", "=", " ">> \o IntToStr(n)

\* C5: after add_number_of_parrallel_downloads with number n, every line of
\* the old file that holds the directive reads 'ParallelDownloads = n' and
\* every other line of the old file is unchanged, in the same position.
C5_LinesRewritten ==
  IsCall(DlFn) =>
     LET old == FileLines(call.before)
         new == FileLines(pacman_conf)
     IN /\ Len(new) >= Len(old)
        /\ \A k \in 1..Len(old) :
             new[k] = IF HasDirective(old[k]) THEN DirectiveLine(call.ret[1]) ELSE old[k]

C5_Witness ==
  /\ IsCall(DlFn)
  /\ call.before = <<"#">> \o ParallelDownloads \o <<"\n">>
  /\ call.ret = Val(8)
  /\ FileLines(pacman_conf)[1] = ParallelDownloads \o <<" ", "=", " ", "8">>

\* C6: when no line of the old file holds the directive, no line of the
\* rewritten file holds it.
C6_NeverInserts ==
  (IsCall(DlFn) /\ \A k \in 1..Len(FileLines(call.before)) :
                     ~HasDirective(FileLines(call.before)[k])) =>
     \A k \in 1..Len(FileLines(pacman_conf)) : ~HasDirective(FileLines(pacman_conf)[k])

C6_Witness ==
  /\ IsCall(DlFn)
  /\ call.before = <<"#", "\n", "#">>
  /\ call.ret = Val(8)
  /\ pacman_conf = <<"#", "\n", "#", "\n">>

IsNumberText(input) ==
  LET text == Strip(input)
  IN text = <<>> \/ ParseInt(text) # None

NumberOf(input) ==
  LET text == Strip(input)
  IN IF text = <<>> THEN 0 ELSE ParseInt(text)[1]

\* C8: without a number from the caller, text that is no integer leads to a
\* new prompt with the file untouched; the file is written once, after an
\* integer was read (0 for blank text), and that integer is written and
\* returned.  With a number from the caller nothing is read and that number
\* is written and returned.
C8_PromptLoop ==
  call.fn = DlFn =>
     /\ pc = "read_number" =>
          /\ call.input_number = None
          /\ call.writes = 0
          /\ pacman_conf = call.before
          /\ call.input # None => ~IsNumberText(call.input[1])
     /\ pc = "idle" =>
          /\ call.writes = 1
          /\ \A k \in 1..Len(FileLines(call.before)) :
               HasDirective(FileLines(call.before)[k]) =>
                  FileLines(pacman_conf)[k] = DirectiveLine(call.ret[1])
          /\ IF call.input_number # None
             THEN call.input = None /\ call.ret = call.input_number
             ELSE /\ call.input # None
                  /\ IsNumberText(call.input[1])
                  /\ call.ret = Val(NumberOf(call.input[1]))

C8_Witness ==
  /\ IsCall(DlFn)
  /\ call.input_number = None
  /\ call.input = Val(<<"-", "8">>)
  /\ call.ret = Val(0 - 8)
  /\ call.before = ParallelDownloads
  /\ pacman_conf = ParallelDownloads \o <<" ", "=", " ", "-", "8", "\n">>

\* C10: running the rewrite a second time with the same number (the file
\* it starts from is the first run's, with every directive line already
\* reading that number) leaves the file as the first run left it, with the
\* same number of lines.
C10_RewriteIdempotent ==
  (/\ IsCall(DlFn)
   /\ call.run = 2
   /\ \A k \in 1..Len(FileLines(call.before)) :
        HasDirective(FileLines(call.before)[k]) =>
           FileLines(call.before)[k] = DirectiveLine(call.ret[1])) =>
     /\ pacman_conf = call.before
     /\ Len(FileLines(pacman_conf)) = Len(FileLines(call.before))

====
